---- MODULE Spec2Model ----
(***************************************************************************)
(* A model of the go-bson codec: Marshal (the encoder) and Unmarshal (the  *)
(* decoder with its target binding), as state machine whose actions are    *)
(* the two entry points applied to inputs drawn from bounded sets.         *)
(*                                                                         *)
(* Representation.  A byte is a number in 0..255 and a Go string or []byte *)
(* is a sequence of bytes.  A fixed-width integer is kept as the sequence  *)
(* of its bytes, little-endian two's complement, so that a 32- or 64-bit   *)
(* value keeps its width.  A Go value is a record whose field k names its  *)
(* dynamic type; a Go type is a record whose field k names its kind.       *)
(***************************************************************************)
EXTENDS Integers, Sequences, FiniteSets, TLC

VARIABLES pc, val, enc, data, target, dec, stack

vars == <<pc, val, enc, data, target, dec, stack>>

(***************************************************************************)
(* Element type tags.                                                      *)
(***************************************************************************)
elFloat == 1
elString == 2
elDoc == 3
elArray == 4
elBinary == 5
elObjectID == 7
elBool == 8
elDatetime == 9
elNull == 10
elRegexp == 11
elJavaScript == 13
elSymbol == 14
elJavaScope == 15
elInt32 == 16
elInt64 == 18
elMax == 127
elMin == 255

(***************************************************************************)
(* Bytes and fixed-width integers.                                         *)
(***************************************************************************)
Byte == 0..255

RECURSIVE LEBytes(_, _)
\* binary.Write(e, order, n) of a w-byte integer n: little-endian, two's
\* complement (\div rounds down, so a negative n sign-extends).
LEBytes(n, w) == IF w = 0 THEN <<>> ELSE <<n % 256>> \o LEBytes(n \div 256, w - 1)

RECURSIVE Rep(_, _)
Rep(x, n) == IF n <= 0 THEN <<>> ELSE <<x>> \o Rep(x, n - 1)

IsNeg(b) == Len(b) > 0 /\ b[Len(b)] >= 128

\* a Go integer conversion between widths, on the byte representation
SignExtend(b, w) == b \o Rep(IF IsNeg(b) THEN 255 ELSE 0, w - Len(b))
ZeroExtend(b, w) == b \o Rep(0, w - Len(b))

IntKinds == {"int8", "uint8", "int16", "uint16", "int32", "uint32",
             "int", "uint", "int64", "uint64"}
SignedKinds == {"int8", "int16", "int32", "int", "int64"}
FloatKinds == {"float32", "float64"}

\* the size in bytes of an integer or float kind (int and uint are 32 bits
\* wide in the Go releases the package was written for)
KindSize(k) == CASE k \in {"int8", "uint8"} -> 1
                 [] k \in {"int16", "uint16"} -> 2
                 [] k \in {"int32", "uint32", "int", "uint", "float32"} -> 4
                 [] k \in {"int64", "uint64", "float64"} -> 8

RECURSIVE Itoa(_)
\* strconv.Itoa for i >= 0
Itoa(i) == IF i < 10 THEN <<48 + i>> ELSE Itoa(i \div 10) \o <<48 + (i % 10)>>

(***************************************************************************)
(* Go types.                                                               *)
(***************************************************************************)
Ty(k) == [k |-> k]
TIface == Ty("iface")
TPtr(t) == [k |-> "ptr", of |-> t]
TSlice(t) == [k |-> "slice", of |-> t]
TMap(t) == [k |-> "map", of |-> t]
\* a struct type: its fields in declared order
TStruct(fs) == [k |-> "struct", of |-> fs]
Field(name, tag, t) == [name |-> name, tag |-> tag, typ |-> t]

(***************************************************************************)
(* Go values.                                                              *)
(***************************************************************************)
Nil == [k |-> "nil"]
VInt(k, n) == [k |-> k, v |-> LEBytes(n, KindSize(k))]
VStr(s) == [k |-> "string", v |-> s]
VSym(s) == [k |-> "Symbol", v |-> s]
VBool(b) == [k |-> "bool", v |-> b]
VBytes(s) == [k |-> "bytes", v |-> s]
\* a float by its IEEE-754 bits, little-endian
VFloat(k, bits) == [k |-> k, v |-> bits]
\* a pointer: nil, or to the value p
VNilPtr(t) == [k |-> "ptr", ty |-> t, v |-> <<>>]
VPtr(t, p) == [k |-> "ptr", ty |-> t, v |-> <<p>>]
\* a map[string]t: its entries <<key, value>> in the order v.Keys() lists them
VMap(t, es) == [k |-> "map", isnil |-> FALSE, ty |-> t, v |-> es]
VNilMap(t) == [k |-> "map", isnil |-> TRUE, ty |-> t, v |-> <<>>]
VSlice(t, es) == [k |-> "slice", ty |-> t, v |-> es]
\* a struct: its field descriptors and, in the same order, its field values
VStruct(fs, vs) == [k |-> "struct", ty |-> fs, v |-> vs]
VMaxKey == [k |-> "MaxKey"]
VMinKey == [k |-> "MinKey"]
VObjectID(b) == [k |-> "ObjectID", v |-> b]
VRegexp(expr, opts) == [k |-> "Regexp", v |-> [Expr |-> expr, Options |-> opts]]
VJavaScript(code, scope) == [k |-> "JavaScript", v |-> [Code |-> code, Scope |-> scope]]
\* a time.Time, by its Seconds() as an int64
VTime(secs) == [k |-> "Time", v |-> secs]
\* a value of a kind Marshal has no encoding for
VChan == [k |-> "chan"]
VFunc == [k |-> "func"]
VComplex == [k |-> "complex128"]

\* reflect.Typeof(v), for the values of the model
TypeOf(v) == CASE v.k \in {"ptr"} -> TPtr(v.ty)
               [] v.k = "map" -> TMap(v.ty)
               [] v.k = "slice" -> TSlice(v.ty)
               [] v.k = "struct" -> TStruct(v.ty)
               [] OTHER -> Ty(v.k)

(***************************************************************************)
(* Outcomes of a call: it returns (st "ok", or "err" with the error e), or *)
(* it panics (st "panic" with the panic value e).  b is what it wrote.     *)
(***************************************************************************)
Ok(b) == [st |-> "ok", b |-> b, e |-> "none"]
Failed(b, e) == [st |-> "err", b |-> b, e |-> e]
Panic(e) == [st |-> "panic", b |-> <<>>, e |-> e]

NilDeref == "runtime error: invalid memory address or nil pointer dereference"
UnsupportedType(v) == "bson: unsupported type: " \o v.k

(***************************************************************************)
(* The encoder.                                                            *)
(***************************************************************************)
\* encodeState.writeBegin: the tag, the key as written, a NUL
writeBegin(kind, key) == <<kind>> \o key \o <<0>>

\* an int32 written under the tag of an int64
writeInt32Wide(key, b) == Ok(writeBegin(elInt64, key) \o b)

writeInt32(key, b) == Ok(writeBegin(elInt32, key) \o b)

writeInt64(key, b) == Ok(writeBegin(elInt64, key) \o b)

\* the types whose method set holds MarshalBSON
MarshalerTypes == {Ty("Symbol"), Ty("MaxKey"), Ty("MinKey"),
                   TPtr(Ty("Symbol")), TPtr(Ty("MaxKey")), TPtr(Ty("MinKey")),
                   TPtr(Ty("ObjectID")), TPtr(Ty("Regexp")), TPtr(Ty("JavaScript"))}

\* marshalCode, and Symbol.MarshalBSON: a length-prefixed, NUL-terminated string
marshalCode(j) == LEBytes(Len(j) + 1, 4) \o j \o <<0>>

\* the most significant bit first
ByteBits(x) == [i \in 1..8 |-> (x \div (2 ^ (8 - i))) % 2]
RECURSIVE BitsOf(_)
\* the bits of a little-endian byte sequence, most significant first
BitsOf(b) == IF b = <<>> THEN <<>> ELSE BitsOf(Tail(b)) \o ByteBits(b[1])
BitsByte(bs) == bs[1] * 128 + bs[2] * 64 + bs[3] * 32 + bs[4] * 16
                  + bs[5] * 8 + bs[6] * 4 + bs[7] * 2 + bs[8]
RECURSIVE BytesOf(_)
BytesOf(bs) == IF bs = <<>> THEN <<>>
               ELSE BytesOf(SubSeq(bs, 9, Len(bs))) \o <<BitsByte(SubSeq(bs, 1, 8))>>

\* float64(v) of a float32 given by its bits (zero or a normal number): the
\* exponent is rebiased and the fraction padded
Float32To64(b) ==
    LET bits == BitsOf(b)
        e == SubSeq(bits, 2, 9)
        e64 == IF e = Rep(0, 8) THEN Rep(0, 11)
               ELSE <<e[1]>> \o Rep(1 - e[1], 3) \o SubSeq(e, 2, 8)
    IN BytesOf(<<bits[1]>> \o e64 \o SubSeq(bits, 10, 32) \o Rep(0, 29))

\* a struct's entries were every field written under its declared name
StructEntriesByName(fs, vs) == [i \in 1..Len(fs) |-> <<fs[i].name, vs[i]>>]

\* a struct's entries as marshal and writeReflect list them: one per field in
\* declared order, under the tag when there is one and the name otherwise
StructEntries(fs, vs) ==
    [i \in 1..Len(fs) |-> <<IF fs[i].tag = <<>> THEN fs[i].name ELSE fs[i].tag, vs[i]>>]

\* closing steps that take the length before the terminator is written
PatchLengthEarly(b) == LEBytes(Len(b) - 1, 4) \o SubSeq(b, 5, Len(b))

\* marshal's closing steps: the terminator, then the length patched over the
\* four bytes reserved at the start
PatchLength(b) == LEBytes(Len(b), 4) \o SubSeq(b, 5, Len(b))

RECURSIVE writeKeyVal(_, _), writeReflect(_, _), writeAll(_), marshal(_), MarshalBSON(_)

\* one loop's buffer once the calls after the first are done, with result rest
writeAllJoin(r, rest) == IF rest.st = "panic" THEN rest ELSE Ok(r.b \o rest.b)

\* one loop after its first writeKeyVal call, with result r
writeAllNext(es, r) == IF r.st = "panic" THEN r ELSE writeAllJoin(r, writeAll(Tail(es)))

\* the writeKeyVal calls of one loop, in order, into one buffer; the callers
\* drop each call's error, and a panic unwinds the loop
writeAll(es) ==
    IF es = <<>> THEN Ok(<<>>) ELSE writeAllNext(es, writeKeyVal(es[1][1], es[1][2]))

\* the entries marshal's struct case writes for a value that is a struct
marshalEntries(v) ==
    CASE v.k = "struct" -> StructEntries(v.ty, v.v)
      [] v.k \in {"MaxKey", "MinKey"} -> <<>>
      [] v.k = "Regexp" -> << <<<<69, 120, 112, 114>>, VStr(v.v.Expr)>>,
                              <<<<79, 112, 116, 105, 111, 110, 115>>, VStr(v.v.Options)>> >>
      [] v.k = "JavaScript" -> << <<<<67, 111, 100, 101>>, VStr(v.v.Code)>>,
                                  <<<<83, 99, 111, 112, 101>>, v.v.Scope>> >>

\* marshal's closing steps on the entries written, with result r
marshalClose(r) ==
    IF r.st = "panic" THEN r ELSE Ok(PatchLength(<<0, 0, 0, 0>> \o r.b \o <<0>>))

\* encodeState.marshal; Marshal runs it on a fresh buffer
marshal(v) ==
    CASE v.k = "ptr" -> IF v.v = <<>> THEN Panic("invalid type") ELSE marshal(v.v[1])
      [] v.k = "map" -> marshalClose(writeAll(v.v))
      [] v.k \in {"struct", "MaxKey", "MinKey", "Regexp", "JavaScript"} ->
           marshalClose(writeAll(marshalEntries(v)))
      [] v.k \in {"nil", "string", "Symbol", "bool", "bytes", "slice", "ObjectID",
                  "chan", "func", "complex128"} \cup IntKinds \cup FloatKinds ->
           Panic("invalid type")

\* Marshal: the bytes and a nil error, or marshal's panic, which it does not recover
Marshal(v) == marshal(v)

\* what a MarshalBSON method returns: the tag and the body
Element(kind, b) == [st |-> "ok", kind |-> kind, b |-> b, e |-> "none"]

\* JavaScript.MarshalBSON with a scope, once the scope is marshalled
marshalScope(code, scope) ==
    IF scope.st = "panic" THEN [st |-> "panic", kind |-> 0, b |-> <<>>, e |-> scope.e]
    ELSE Element(elJavaScope,
                 LEBytes(4 + 4 + Len(code) + 1 + Len(scope.b), 4) \o LEBytes(Len(code) + 1, 4)
                   \o code \o <<0>> \o scope.b)

\* the MarshalBSON method of the value x
MarshalBSONOf(x) ==
    CASE x.k = "ObjectID" -> Element(elObjectID, x.v)
      [] x.k = "Regexp" -> Element(elRegexp, x.v.Expr \o <<0>> \o x.v.Options \o <<0>>)
      [] x.k = "JavaScript" ->
           IF x.v.Scope.isnil THEN Element(elJavaScript, marshalCode(x.v.Code))
           ELSE marshalScope(x.v.Code, Marshal(x.v.Scope))
      [] x.k = "Symbol" -> Element(elSymbol, marshalCode(x.v))
      [] x.k = "MaxKey" -> Element(elMax, <<>>)
      [] x.k = "MinKey" -> Element(elMin, <<>>)

\* v.MarshalBSON(): through a pointer the method is the pointed-to value's,
\* and a nil pointer faults
MarshalBSON(v) ==
    CASE v.k # "ptr" -> MarshalBSONOf(v)
      [] v.k = "ptr" /\ v.v = <<>> -> [st |-> "panic", kind |-> 0, b |-> <<>>, e |-> NilDeref]
      [] v.k = "ptr" /\ v.v # <<>> -> MarshalBSONOf(v.v[1])

\* writeKeyVal's Marshaler case once MarshalBSON returned m
writeMarshaler(key, m) ==
    IF m.st = "panic" THEN Panic(m.e) ELSE Ok(writeBegin(m.kind, key) \o m.b)

\* writeReflect's map and slice cases once the entries are written, with result r
writeNested(kind, key, r) ==
    IF r.st = "panic" THEN r
    ELSE Ok(writeBegin(kind, key) \o LEBytes(Len(r.b) + 5, 4) \o r.b \o <<0>>)

\* writeReflect's struct case once the fields are written, with result r
writeFields(key, r) ==
    IF r.st = "panic" THEN r ELSE Ok(writeBegin(elDoc, key) \o r.b \o <<0>>)

\* encodeState.writeKeyVal: the type switch on the entry's value, in its order
writeKeyVal(key, v) ==
    CASE TypeOf(v) \in MarshalerTypes ->
           writeMarshaler(key, MarshalBSON(v))
      [] v.k = "float32" -> Ok(writeBegin(elFloat, key) \o Float32To64(v.v))
      [] v.k = "float64" -> Ok(writeBegin(elFloat, key) \o v.v)
      [] v.k = "string" ->
           Ok(writeBegin(elString, key) \o LEBytes(Len(v.v) + 1, 4) \o v.v \o <<0>>)
      [] v.k = "bytes" ->
           Ok(writeBegin(elBinary, key) \o LEBytes(Len(v.v), 4) \o <<0>> \o v.v)
      [] v.k = "bool" -> Ok(writeBegin(elBool, key) \o <<IF v.v THEN 1 ELSE 0>>)
      [] TypeOf(v) = TPtr(Ty("Time")) ->
           IF v.v = <<>> THEN Panic(NilDeref)
           ELSE Ok(writeBegin(elDatetime, key) \o v.v[1].v)
      [] v.k = "nil" -> Ok(writeBegin(elNull, key))
      [] v.k \in {"int8", "int16"} -> writeInt32(key, SignExtend(v.v, 4))
      [] v.k \in {"uint8", "uint16"} -> writeInt32(key, ZeroExtend(v.v, 4))
      [] v.k \in {"int32", "uint32"} -> writeInt32(key, v.v)
      [] v.k = "int" -> writeInt64(key, SignExtend(v.v, 8))
      [] v.k = "uint" -> writeInt64(key, ZeroExtend(v.v, 8))
      [] v.k \in {"int64", "uint64"} -> writeInt64(key, v.v)
      [] OTHER -> writeReflect(key, v)

\* encodeState.writeReflect: the kinds writeKeyVal's type switch leaves over
writeReflect(key, v) ==
    CASE v.k = "map" -> writeNested(elDoc, key, writeAll(v.v))
      [] v.k = "slice" ->
           writeNested(elArray, key, writeAll([i \in 1..Len(v.v) |-> <<Itoa(i - 1), v.v[i]>>]))
      [] v.k = "ptr" ->
           \* v.Elem() of a nil pointer is a nil Value, and Interface() on it faults
           IF v.v = <<>> THEN Panic(NilDeref) ELSE writeKeyVal(key, v.v[1])
      [] v.k = "struct" -> writeFields(key, writeAll(StructEntries(v.ty, v.v)))
      [] v.k \in {"chan", "func", "complex128"} -> Failed(<<>>, UnsupportedType(v))

(***************************************************************************)
(* The decoder.  Every byte slice of one Unmarshal call is a window        *)
(* [lo, n] on the caller's array arr: n bytes from offset lo, with the     *)
(* capacity Len(arr) - lo.  An index is checked against n, the upper bound *)
(* of a slice expression against the capacity, as Go does.  A decodeState  *)
(* is [arr, lo, n, r]: its b is the window and r the read offset.          *)
(***************************************************************************)
\* a panic: of class "runtime" (a runtime.Error), "error" (an os.Error) or
\* "string" (a string)
Throw(cls, e) == [st |-> "throw", cls |-> cls, e |-> e]
BoundsError == Throw("runtime", "runtime error: index or slice bounds out of range")
InvalidType == Throw("string", "invalid type for decoding")
InvalidUnmarshalError(t) == Throw("error", "bson: Unmarshal(" \o t.k \o ")")
Done(v) == [st |-> "ok", v |-> v]

doubleNull == -1
lengthEncodedMinus == -2
lengthEncoded == -6
lengthEncodedPlus == -7

\* the lengths table: 256 entries, zero where the literal names no tag
lengths(kind) ==
    CASE kind \in {elFloat, elDatetime, elInt64} -> 8
      [] kind \in {elString, elJavaScript, elSymbol} -> lengthEncoded
      [] kind \in {elDoc, elArray, elJavaScope} -> lengthEncodedMinus
      [] kind = elBinary -> lengthEncodedPlus
      [] kind = elObjectID -> 12
      [] kind = elBool -> 1
      [] kind = elRegexp -> doubleNull
      [] kind = elInt32 -> 4
      [] OTHER -> 0

DecodeState(arr, b) == [arr |-> arr, lo |-> b.lo, n |-> b.n, r |-> 0]
\* d.b[a:b], when a <= b <= cap(d.b)
Window(d, a, b) == [lo |-> d.lo + a, n |-> b - a]
Cap(d) == Len(d.arr) - d.lo
\* the bytes of a window
Content(arr, b) == [i \in 1..b.n |-> arr[b.lo + i]]
\* d.b[i], when 0 <= i < len(d.b)
At(d, i) == d.arr[d.lo + i + 1]

\* bytes.IndexByte(d.b[from:], 0), when from <= len(d.b)
IndexByte(d, from) ==
    LET zs == {i \in from..(d.n - 1) : At(d, i) = 0} IN
    IF zs = {} THEN -1 ELSE (CHOOSE i \in zs : \A j \in zs : i <= j) - from

\* int(order.Uint32(d.b[r:])) where int is 32 bits wide, when four bytes are there
Int32At(d, r) ==
    At(d, r) + 256 * At(d, r + 1) + 65536 * At(d, r + 2)
      + 16777216 * (IF At(d, r + 3) >= 128 THEN At(d, r + 3) - 256 ELSE At(d, r + 3))

\* decodeState.readCString, once pos is known
readCStringAt(d, pos) ==
    IF pos < 0 THEN Throw("string", "unterminated C string")
    ELSE [st |-> "ok", s |-> Content(d.arr, Window(d, d.r, d.r + pos)), r |-> d.r + pos + 1]

\* decodeState.readCString
readCString(d) == IF d.r > d.n THEN BoundsError ELSE readCStringAt(d, IndexByte(d, d.r))

\* decodeState.readString, once l is known
readStringOf(d, l) ==
    IF l < 1 \/ d.r + 4 + l - 1 > Cap(d) THEN BoundsError
    ELSE [st |-> "ok", s |-> Content(d.arr, Window(d, d.r + 4, d.r + 4 + l - 1)),
          r |-> d.r + 4 + l]

\* decodeState.readString
readString(d) == IF d.r > d.n \/ d.n - d.r < 4 THEN BoundsError ELSE readStringOf(d, Int32At(d, d.r))

\* what readChunk returns: the tag, the key, the body window, and the read
\* offset it leaves
Chunk(kind, key, b, r) == [st |-> "ok", kind |-> kind, key |-> key, b |-> b, r |-> r]

\* b = d.b[start:end] with the read offset left where it was
ChunkStay(d, kind, key, start, end) ==
    IF end < start \/ end > Cap(d) THEN BoundsError
    ELSE Chunk(kind, key, Window(d, start, end), d.r)

\* b = d.b[start:end]; d.r = end
ChunkTo(d, kind, key, start, end) ==
    IF end < start \/ end > Cap(d) THEN BoundsError
    ELSE Chunk(kind, key, Window(d, start, end), end)

\* readChunk's doubleNull case from the second IndexByte on, d.r being r2
readChunkSecond(d, kind, key, start, r2) ==
    ChunkTo(d, kind, key, start, r2 + IndexByte(d, r2) + 1)

\* readChunk's length-encoded case, once l is known; r is the offset of the
\* length
readChunkLength(d, kind, key, r, l, n) ==
    IF l > Len(d.arr) THEN BoundsError
    ELSE ChunkTo(d, kind, key, r + 4, r + 4 + l + lengthEncoded - n)

\* readChunk's switch on n = lengths[kind]; r is the offset after the key
readChunkBody(d, kind, key, r, n) ==
    CASE n = doubleNull -> readChunkSecond(d, kind, key, r, r + IndexByte(d, r) + 1)
      [] n < 0 /\ n # doubleNull ->
           IF d.n - r < 4 THEN BoundsError
           ELSE readChunkLength(d, kind, key, r, Int32At(d, r), n)
      [] n = 0 -> Chunk(kind, key, [lo |-> Len(d.arr), n |-> 0], r)
      [] n > 0 -> ChunkTo(d, kind, key, r, r + n)

\* readChunk after the key c has been read
readChunkKey(d, kind, c) ==
    IF c.st # "ok" THEN c ELSE readChunkBody(d, kind, c.s, c.r, lengths(kind))

\* readChunk after the tag has been read
readChunkKind(d, kind) ==
    IF kind = 0 THEN Chunk(0, <<>>, [lo |-> Len(d.arr), n |-> 0], d.r + 1)
    ELSE readChunkKey(d, kind, readCString([d EXCEPT !.r = d.r + 1]))

\* decodeState.readChunk: the next element's tag, key and body window, and the
\* read offset after it
readChunk(d) == IF d.r >= d.n THEN BoundsError ELSE readChunkKind(d, At(d, d.r))

(***************************************************************************)
(* Value interpretation and target binding.  A target slot is given by its *)
(* static type t and the value cur it holds; decoding yields Done(v) with  *)
(* the value the slot holds afterwards, or a panic.                        *)
(***************************************************************************)
RECURSIVE Zero(_)
\* reflect.MakeZero(t)
Zero(t) ==
    CASE t.k = "iface" -> Nil
      [] t.k \in IntKinds \cup FloatKinds -> [k |-> t.k, v |-> Rep(0, KindSize(t.k))]
      [] t.k = "string" -> VStr(<<>>)
      [] t.k = "Symbol" -> VSym(<<>>)
      [] t.k = "bool" -> VBool(FALSE)
      [] t.k = "bytes" -> VBytes(<<>>)
      [] t.k = "slice" -> VSlice(t.of, <<>>)
      [] t.k = "map" -> VNilMap(t.of)
      [] t.k = "ptr" -> VNilPtr(t.of)
      [] t.k = "struct" -> VStruct(t.of, [i \in 1..Len(t.of) |-> Zero(t.of[i].typ)])
      [] t.k = "MaxKey" -> VMaxKey
      [] t.k = "MinKey" -> VMinKey
      [] t.k = "ObjectID" -> VObjectID(Rep(0, 12))
      [] t.k = "Regexp" -> VRegexp(<<>>, <<>>)
      [] t.k = "JavaScript" -> VJavaScript(<<>>, VNilMap(TIface))
      [] t.k = "Time" -> VTime(Rep(0, 8))
      [] t.k \in {"chan", "func", "complex128"} -> [k |-> t.k]

\* the element type of a *reflect.SliceValue's type
SliceElem(t) == IF t.k = "bytes" THEN Ty("uint8") ELSE t.of

\* the kinds whose reflect.Value has an IsNil method
Nillable == {"chan", "func", "iface", "map", "ptr", "slice", "bytes"}

\* IntValue.Overflow(x) and UintValue.Overflow(x), x given by its 8 bytes
IntOverflow(k, x) == SignExtend(SubSeq(x, 1, KindSize(k)), 8) # x
UintOverflow(k, x) == ZeroExtend(SubSeq(x, 1, KindSize(k)), 8) # x

RECURSIVE StripZeros(_)
StripZeros(bs) == IF bs # <<>> /\ bs[1] = 0 THEN StripZeros(Tail(bs)) ELSE bs
RECURSIVE NatBits(_, _)
NatBits(n, w) == IF w = 0 THEN <<>> ELSE NatBits(n \div 2, w - 1) \o <<n % 2>>

\* float64(n) of an unsigned integer n given by its bytes, as IEEE-754 bits;
\* exact while n has at most 53 significant bits, cut below them otherwise
Float64FromUint(b) ==
    LET bits == StripZeros(BitsOf(b)) IN
    IF bits = <<>> THEN Rep(0, 8)
    ELSE LET p == Len(bits) - 1
             frac == SubSeq(Tail(bits) \o Rep(0, 52), 1, 52)
         IN BytesOf(<<0>> \o NatBits(1023 + p, 11) \o frac)

\* float32(f) of a float64 given by its bits, for a value float32 holds exactly
Float64To32(b) ==
    LET bits == BitsOf(b)
        e == SubSeq(bits, 2, 12)
        e32 == IF e = Rep(0, 11) THEN Rep(0, 8)
               ELSE <<e[1]>> \o SubSeq(e, 5, 11)
    IN BytesOf(<<bits[1]>> \o e32 \o SubSeq(bits, 13, 35))

\* v.Set(f) on a *reflect.FloatValue of kind k
SetFloat(k, f) == VFloat(k, IF k = "float32" THEN Float64To32(f) ELSE f)

\* v.SetElem(key, val) on a map given by its entries
SetElem(es, key, v) ==
    IF \E i \in 1..Len(es) : es[i][1] = key
    THEN [i \in 1..Len(es) |-> IF es[i][1] = key THEN <<key, v>> ELSE es[i]]
    ELSE Append(es, <<key, v>>)

ToLower(s) == [i \in 1..Len(s) |-> IF s[i] \in 65..90 THEN s[i] + 32 ELSE s[i]]

\* decodeStructDoc's field resolution: the index of the field key is bound to,
\* 0 when there is none.  First the loop over the tags, then FieldByName, then
\* FieldByNameFunc, which finds a field only when exactly one matches.
ResolveField(fs, key) ==
    LET byTag == {i \in 1..Len(fs) : fs[i].tag = key}
        byName == {i \in 1..Len(fs) : fs[i].name = key}
        byFold == {i \in 1..Len(fs) : ToLower(fs[i].name) = ToLower(key)}
        First(S) == CHOOSE i \in S : \A j \in S : i <= j
    IN IF byTag # {} THEN First(byTag)
       ELSE IF Cardinality(byName) = 1 THEN First(byName)
       ELSE IF Cardinality(byFold) = 1 THEN First(byFold)
       ELSE 0

RECURSIVE decodeElem(_, _, _, _, _), decodeElemInterface(_, _, _), decodeDoc(_, _, _),
          decodeMapDoc(_, _, _), decodeStructDoc(_, _, _), decodeArray(_, _),
          decodeArrayInterface(_, _), decodeJavaScope(_, _)

\* the value a slot holds once the document its pointer, map or struct holds
\* is decoded: r is what decoding gave for the contents
Filled(k, t, r) ==
    IF r.st # "ok" THEN r
    ELSE CASE k = "ptr" -> Done(VPtr(t, r.v))
           [] k = "map" -> Done(VMap(t, r.v))
           [] k = "struct" -> Done(VStruct(t, r.v))
           [] k = "slice" -> Done(VSlice(t, r.v))

\* indirect, then decodeDoc's switch, on a slot of type t holding cur
decodeDoc(d, t, cur) ==
    CASE t.k = "iface" ->
           IF cur = Nil THEN InvalidUnmarshalError(t) ELSE decodeDoc(d, TypeOf(cur), cur)
      [] t.k = "ptr" ->
           IF cur.v = <<>> THEN InvalidUnmarshalError(t)
           ELSE Filled("ptr", t.of, decodeDoc(d, t.of, cur.v[1]))
      [] t.k = "map" -> Filled("map", t.of, decodeMapDoc(d, t.of, cur.v))
      [] t.k = "struct" -> Filled("struct", t.of, decodeStructDoc(d, t.of, cur.v))
      [] OTHER -> InvalidUnmarshalError(t)

\* decodeMapDoc's loop after the element of chunk c is decoded, with result r
decodeMapDocSet(d, elType, es, c, r) ==
    IF r.st # "ok" THEN r
    ELSE decodeMapDoc([d EXCEPT !.r = c.r], elType, SetElem(es, c.key, r.v))

\* decodeMapDoc's loop after readChunk gave c
decodeMapDocChunk(d, elType, es, c) ==
    IF c.st # "ok" THEN c
    ELSE IF c.kind = 0 THEN Done(es)
    ELSE decodeMapDocSet(d, elType, es, c,
                         decodeElem(d.arr, c.kind, c.b, elType, Zero(elType)))

\* decodeMapDoc's loop, on the entries es of a map[string]elType
decodeMapDoc(d, elType, es) == decodeMapDocChunk(d, elType, es, readChunk(d))

\* decodeStructDoc's loop after the element of chunk c is decoded into field
\* i, with result r
decodeStructDocSet(d, fs, vs, c, i, r) ==
    IF r.st # "ok" THEN r
    ELSE decodeStructDoc([d EXCEPT !.r = c.r], fs, [vs EXCEPT ![i] = r.v])

\* decodeStructDoc's loop after the field i of chunk c is resolved
decodeStructDocField(d, fs, vs, c, i) ==
    IF i = 0 THEN decodeStructDoc([d EXCEPT !.r = c.r], fs, vs)
    ELSE decodeStructDocSet(d, fs, vs, c, i,
                            decodeElem(d.arr, c.kind, c.b, fs[i].typ, vs[i]))

\* decodeStructDoc's loop after readChunk gave c
decodeStructDocChunk(d, fs, vs, c) ==
    IF c.st # "ok" THEN c
    ELSE IF c.kind = 0 THEN Done(vs)
    ELSE decodeStructDocField(d, fs, vs, c, ResolveField(fs, c.key))

\* decodeStructDoc's loop, on the field values vs of a struct with fields fs
decodeStructDoc(d, fs, vs) == decodeStructDocChunk(d, fs, vs, readChunk(d))

\* the loop of decodeArray after the element of chunk c is decoded
decodeArrayNext(d, elType, c, r) ==
    IF r.st # "ok" THEN r ELSE decodeArray([d EXCEPT !.r = c.r], elType)

\* the loop of decodeArray after readChunk gave c
decodeArrayChunk(d, elType, c) ==
    IF c.st # "ok" THEN c
    ELSE IF c.kind = 0 THEN Done(<<>>)
    ELSE decodeArrayNext(d, elType, c,
                         decodeElem(d.arr, c.kind, c.b, elType, Zero(elType)))

\* the elArray loop of decodeElem: each element is decoded into a zero value
\* and appended to the local sv, which the loop never stores into the target
decodeArray(d, elType) == decodeArrayChunk(d, elType, readChunk(d))

\* the loop of decodeArrayInterface after the element of chunk c is decoded
decodeArrayInterfaceNext(d, s, c, r) ==
    IF r.st # "ok" THEN r
    ELSE decodeArrayInterface([d EXCEPT !.r = c.r], Append(s, r.v))

\* the loop of decodeArrayInterface after readChunk gave c
decodeArrayInterfaceChunk(d, s, c) ==
    IF c.st # "ok" THEN c
    ELSE IF c.kind = 0 THEN Done(s)
    ELSE decodeArrayInterfaceNext(d, s, c, decodeElemInterface(d.arr, c.kind, c.b))

\* the elArray loop of decodeElemInterface: s holds the elements so far
decodeArrayInterface(d, s) == decodeArrayInterfaceChunk(d, s, readChunk(d))

\* the elJavaScope case once the scope document is decoded, with result r
decodeJavaScopeDone(code, r) ==
    IF r.st # "ok" THEN r ELSE Done(VPtr(Ty("JavaScript"), VJavaScript(code, r.v)))

\* the elJavaScope case once readString gave the code c
decodeJavaScopeCode(d, c) ==
    IF c.st # "ok" THEN c
    ELSE decodeJavaScopeDone(c.s, decodeDoc([d EXCEPT !.r = c.r + 4],
                                           TMap(TIface), VMap(TIface, << >>)))

\* the elJavaScope case, shared by decodeElem and decodeElemInterface
decodeJavaScope(arr, b) == decodeJavaScopeCode(DecodeState(arr, b), readString(DecodeState(arr, b)))

\* decodeElem's elArray case once the loop is over, with result r
decodeElemArray(cur, r) == IF r.st # "ok" THEN r ELSE Done(cur)

\* decodeElem's elJavaScope case once the value is decoded, with result r
decodeElemJavaScope(t, r) ==
    IF r.st # "ok" THEN r ELSE IF t = TPtr(Ty("JavaScript")) THEN r ELSE InvalidType

\* an elRegexp case that kept the options behind the expression
decodeRegexpKeep(arr, b, pos) ==
    IF pos < 0 THEN BoundsError
    ELSE Done(VPtr(Ty("Regexp"), VRegexp(SubSeq(Content(arr, b), 1, pos),
                                         SubSeq(Content(arr, b), pos + 2, b.n - 1))))

\* decodeElem's elRegexp case, with pos the end of the expression
decodeRegexp(arr, b, pos) ==
    IF pos < 0 THEN BoundsError
    ELSE Done(VPtr(Ty("Regexp"), VRegexp(SubSeq(Content(arr, b), 1, pos), <<>>)))

\* decodeElem's elInt32 and elInt64 cases; n is the body read as an unsigned
\* integer, which for an elInt32 becomes an int64 or uint64 by zero extension
decodeElemInt(t, cur, n) ==
    CASE t.k \in FloatKinds -> Done(SetFloat(t.k, Float64FromUint(n)))
      [] t.k \in SignedKinds ->
           IF IntOverflow(t.k, n) THEN InvalidType
           ELSE Done([k |-> t.k, v |-> SubSeq(n, 1, KindSize(t.k))])
      [] t.k \in IntKinds \ SignedKinds ->
           IF UintOverflow(t.k, n) THEN InvalidType
           ELSE Done([k |-> t.k, v |-> SubSeq(n, 1, KindSize(t.k))])
      [] OTHER -> Done(cur)

\* decodeState.decodeElem on a slot of static type t that holds cur
decodeElem(arr, kind, b, t, cur) ==
    CASE t.k = "iface" -> decodeElemInterface(arr, kind, b)
      [] t.k # "iface" /\ kind = elFloat ->
           IF t.k \in FloatKinds THEN Done(SetFloat(t.k, Content(arr, b))) ELSE InvalidType
      [] t.k # "iface" /\ kind \in {elString, elSymbol} ->
           IF b.n = 0 THEN BoundsError
           ELSE IF t.k \in {"string", "Symbol"}
           THEN Done([k |-> t.k, v |-> SubSeq(Content(arr, b), 1, b.n - 1)])
           ELSE InvalidType
      [] t.k # "iface" /\ kind = elDoc -> decodeDoc(DecodeState(arr, b), t, cur)
      [] t.k # "iface" /\ kind = elArray ->
           IF t.k \notin {"slice", "bytes"} THEN InvalidType
           ELSE decodeElemArray(cur, decodeArray(DecodeState(arr, b), SliceElem(t)))
      [] t.k # "iface" /\ kind = elBinary ->
           IF t.k \notin {"slice", "bytes"} THEN InvalidType
           ELSE IF b.n = 0 THEN BoundsError
           ELSE IF t.k # "bytes" THEN InvalidType
           ELSE Done(VBytes(Tail(Content(arr, b))))
      [] t.k # "iface" /\ kind = elObjectID ->
           IF t = TPtr(Ty("ObjectID"))
           THEN Done(VPtr(Ty("ObjectID"), VObjectID(Content(arr, b)))) ELSE InvalidType
      [] t.k # "iface" /\ kind = elBool ->
           IF t.k = "bool" THEN Done(VBool(arr[b.lo + 1] # 0)) ELSE InvalidType
      [] t.k # "iface" /\ kind = elDatetime ->
           IF t = TPtr(Ty("Time"))
           THEN Done(VPtr(Ty("Time"), VTime(Content(arr, b)))) ELSE InvalidType
      [] t.k # "iface" /\ kind = elNull ->
           IF t.k \in Nillable THEN Done(Zero(t)) ELSE InvalidType
      [] t.k # "iface" /\ kind = elRegexp ->
           IF IndexByte(DecodeState(arr, b), 0) >= 0 /\ t # TPtr(Ty("Regexp")) THEN InvalidType
           ELSE decodeRegexp(arr, b, IndexByte(DecodeState(arr, b), 0))
      [] t.k # "iface" /\ kind = elJavaScript ->
           IF b.n = 0 THEN BoundsError
           ELSE IF t = TPtr(Ty("JavaScript"))
           THEN Done(VPtr(Ty("JavaScript"),
                          VJavaScript(SubSeq(Content(arr, b), 1, b.n - 1), VNilMap(TIface))))
           ELSE InvalidType
      [] t.k # "iface" /\ kind = elJavaScope ->
           decodeElemJavaScope(t, decodeJavaScope(arr, b))
      [] t.k # "iface" /\ kind \in {elInt32, elInt64} ->
           decodeElemInt(t, cur, ZeroExtend(Content(arr, b), 8))
      [] t.k # "iface" /\ kind = elMax ->
           IF t.k = "MaxKey" THEN Done(VMaxKey) ELSE InvalidType
      [] t.k # "iface" /\ kind = elMin ->
           IF t.k = "MinKey" THEN Done(VMinKey) ELSE InvalidType
      [] OTHER -> Done(cur)

\* decodeState.decodeElemInterface: the natural value of an element
decodeElemInterface(arr, kind, b) ==
    CASE kind = elFloat -> Done(VFloat("float64", Content(arr, b)))
      [] kind = elString ->
           IF b.n = 0 THEN BoundsError ELSE Done(VStr(SubSeq(Content(arr, b), 1, b.n - 1)))
      [] kind = elDoc -> decodeDoc(DecodeState(arr, b), TMap(TIface), VMap(TIface, << >>))
      [] kind = elArray ->
           Filled("slice", TIface, decodeArrayInterface(DecodeState(arr, b), << >>))
      [] kind = elBinary ->
           IF b.n = 0 THEN BoundsError ELSE Done(VBytes(Tail(Content(arr, b))))
      [] kind = elObjectID -> Done(VPtr(Ty("ObjectID"), VObjectID(Content(arr, b))))
      [] kind = elBool -> Done(VBool(arr[b.lo + 1] # 0))
      [] kind = elDatetime -> Done(VPtr(Ty("Time"), VTime(Content(arr, b))))
      [] kind = elNull -> Done(Nil)
      [] kind = elRegexp ->
           decodeRegexp(arr, b, IndexByte(DecodeState(arr, b), 0))
      [] kind = elJavaScript ->
           IF b.n = 0 THEN BoundsError
           ELSE Done(VPtr(Ty("JavaScript"),
                          VJavaScript(SubSeq(Content(arr, b), 1, b.n - 1), VNilMap(TIface))))
      [] kind = elSymbol ->
           IF b.n = 0 THEN BoundsError ELSE Done(VSym(SubSeq(Content(arr, b), 1, b.n - 1)))
      [] kind = elJavaScope -> decodeJavaScope(arr, b)
      [] kind = elInt32 -> Done([k |-> "int32", v |-> Content(arr, b)])
      [] kind = elInt64 -> Done([k |-> "int64", v |-> Content(arr, b)])
      [] kind = elMax -> Done(VMaxKey)
      [] kind = elMin -> Done(VMinKey)
      [] OTHER -> Throw("string", "unsupported type")

\* Unmarshal's deferred function: r is how decodeDoc ended.  A runtime.Error
\* is raised again; an os.Error or a string becomes the error returned.
recover(v, r) ==
    CASE r.st = "ok" -> [st |-> "ok", e |-> "none", v |-> r.v]
      [] r.st = "throw" /\ r.cls = "runtime" -> [st |-> "panic", e |-> r.e, v |-> v]
      [] r.st = "throw" /\ r.cls # "runtime" -> [st |-> "err", e |-> r.e, v |-> v]

\* Unmarshal of the buffer arr[1..n] (arr is the caller's array up to its
\* capacity) into the target v: nil (st "ok") and the target as filled, an
\* error (st "err"), or the runtime panic it raises again (st "panic")
Unmarshal(arr, n, v) ==
    IF n < 4 THEN [st |-> "panic", e |-> BoundsError.e, v |-> v]
    ELSE recover(v, decodeDoc([arr |-> arr, lo |-> 4, n |-> n - 4, r |-> 0],
                             TypeOf(v), v))

(***************************************************************************)
(* Bounds and inputs.                                                      *)
(***************************************************************************)
\* the most entries a generated map holds
MaxEntries == 2
\* the unknown tags a buffer is given
MaxUnknown == 2

ka == <<97>>
kb == <<98>>
kc == <<99>>
kA == <<65>>
kB == <<66>>
kEmpty == <<>>
kNul == <<97, 0, 98>>
kName == <<78, 97, 109, 101>>
kname == <<110, 97, 109, 101>>
kNAME == <<78, 65, 77, 69>>
kHello == <<104, 101, 108, 108, 111>>
kTest == <<116, 101, 115, 116>>
sWorld == <<119, 111, 114, 108, 100>>
sDotStar == <<46, 42>>

Keys == {ka, kb, kA, kEmpty, kNul, kName, kname, kNAME, kHello, kTest}
PosKey(i) == <<96 + i>>

F64One == <<0, 0, 0, 0, 0, 0, 240, 63>>
TInner == <<Field(kA, <<>>, Ty("int32"))>>

\* values whose natural decoded form is the value itself
NaturalValues ==
    {VStr(sWorld), VStr(<<>>), VInt("int32", 10), VInt("int32", -1), VInt("int64", 256),
     VInt("int64", -2), VBool(TRUE), VBool(FALSE), Nil, VBytes(<<222, 173>>),
     VFloat("float64", F64One), VSym(<<115>>), VMaxKey, VMinKey,
     VPtr(Ty("Regexp"), VRegexp(sDotStar, <<>>)),
     VPtr(Ty("Regexp"), VRegexp(sDotStar, <<105>>)),
     VPtr(Ty("ObjectID"), VObjectID(<<76, 155, 143, 180, 163, 130, 170, 254, 23, 200, 110, 99>>)),
     VPtr(Ty("Time"), VTime(LEBytes(1221681866, 8))),
     VPtr(Ty("JavaScript"), VJavaScript(<<102>>, VNilMap(TIface))),
     VPtr(Ty("JavaScript"), VJavaScript(<<102>>, VMap(TIface, << <<kHello, VStr(sWorld)>> >>))),
     VMap(TIface, <<>>),
     VMap(TIface, << <<ka, VInt("int32", 1)>> >>),
     VSlice(TIface, <<>>),
     VSlice(TIface, <<VStr(sWorld), VInt("int32", 1986)>>)}

\* further entry values: records, pointers, and kinds with no encoding
OtherValues ==
    {VStruct(TInner, <<VInt("int32", 1)>>),
     VPtr(TStruct(TInner), VStruct(TInner, <<VInt("int32", 1)>>)),
     VMap(TIface, << <<ka, VChan>> >>),
     VSlice(TIface, <<VFunc>>),
     VChan, VFunc, VComplex,
     VNilPtr(Ty("int32")), VPtr(Ty("int32"), VInt("int32", 5)),
     VNilPtr(Ty("Regexp")), VNilPtr(Ty("ObjectID")), VNilPtr(Ty("Time")),
     VNilPtr(TStruct(TInner)), VPtr(Ty("string"), VStr(sWorld))}

SmallValues == {VInt("int32", 1), VStr(<<120>>), Nil, VMap(TIface, <<>>)}

\* a struct document: a pointer to a struct
PStruct(fs, vs) == VPtr(TStruct(fs), VStruct(fs, vs))

\* map[string]interface{} documents: every key with every value, and up to
\* MaxEntries entries of the small values under the keys "a", "b", ...
DynamicDocs ==
    {VMap(TIface, <<>>)}
      \cup {VMap(TIface, << <<k, v>> >>) : k \in Keys, v \in NaturalValues \cup OtherValues}
      \cup UNION {{VMap(TIface, [i \in 1..n |-> <<PosKey(i), f[i]>>]) : f \in [1..n -> SmallValues]}
                  : n \in 2..MaxEntries}

TypedDocs ==
    {VMap(Ty("int32"), << <<k, VInt("int32", n)>> >>) : k \in {ka, kA, kEmpty, kName}, n \in {1, -1}}
      \cup {VMap(Ty("int32"), << <<ka, VInt("int32", 1)>>, <<kc, VInt("int32", 3)>>,
                                <<kb, VInt("int32", 2)>> >>),
            VMap(Ty("string"), << <<ka, VStr(sWorld)>> >>),
            VMap(Ty("bool"), << <<ka, VBool(TRUE)>>, <<kb, VBool(FALSE)>> >>),
            VMap(Ty("uint32"), << <<ka, VInt("uint32", -1)>> >>),
            VMap(Ty("int8"), << <<ka, VInt("int8", 7)>> >>),
            VMap(Ty("float32"), << <<ka, VFloat("float32", <<0, 0, 128, 63>>)>> >>),
            VMap(Ty("int32"), << <<ka, VInt("int32", 300)>> >>),
            VMap(Ty("int8"), << <<ka, VInt("int8", -1)>> >>),
            VMap(Ty("uint8"), << <<ka, VInt("uint8", 200)>> >>),
            VMap(Ty("int16"), << <<ka, VInt("int16", -2)>> >>),
            VMap(Ty("uint16"), << <<ka, VInt("uint16", 65535)>> >>),
            VMap(Ty("int"), << <<ka, VInt("int", -5)>> >>),
            VMap(Ty("uint"), << <<ka, VInt("uint", -1)>> >>),
            VMap(Ty("uint64"), << <<ka, VInt("uint64", -1)>> >>),
            VMap(Ty("int64"), << <<ka, [k |-> "int64", v |-> <<0, 0, 0, 0, 1, 0, 0, 0>>]>> >>),
            VMap(Ty("int64"), << <<ka, VInt("int64", -129)>>, <<kb, VInt("int64", 5)>> >>),
            VMap(TSlice(Ty("int32")),
                 << <<ka, VSlice(Ty("int32"), <<VInt("int32", 1), VInt("int32", 2)>>)>> >>)}

StructDocs ==
    {PStruct(<<>>, <<>>),
     PStruct(<<Field(kA, <<>>, Ty("int32"))>>, <<VInt("int32", 1)>>),
     PStruct(<<Field(kA, <<>>, Ty("int32"))>>, <<VInt("int32", -1)>>),
     PStruct(<<Field(kA, <<>>, Ty("int32")), Field(kB, <<>>, Ty("int32"))>>,
             <<VInt("int32", 1), VInt("int32", 2)>>),
     PStruct(<<Field(kA, ka, Ty("string"))>>, <<VStr(sWorld)>>),
     PStruct(<<Field(kName, kb, Ty("int32")), Field(kA, <<>>, Ty("string"))>>,
             <<VInt("int32", 7), VStr(sWorld)>>),
     PStruct(<<Field(kB, <<>>, TMap(TIface)), Field(kA, kTest, Ty("bool"))>>,
             <<VMap(TIface, << <<kb, VInt("int32", 1)>> >>), VBool(TRUE)>>),
     PStruct(<<Field(kA, kNul, Ty("string"))>>, <<VStr(sWorld)>>),
     PStruct(<<Field(kA, <<>>, Ty("int64"))>>, <<VInt("int64", 256)>>),
     PStruct(<<Field(kA, <<>>, Ty("int"))>>, <<VInt("int", 640)>>),
     PStruct(<<Field(kA, <<>>, TIface)>>, <<Nil>>),
     PStruct(<<Field(kA, <<>>, Ty("bytes"))>>, <<VBytes(<<222, 173>>)>>),
     PStruct(<<Field(kA, <<>>, TSlice(Ty("string")))>>, <<VSlice(Ty("string"), <<VStr(sWorld)>>)>>),
     PStruct(<<Field(kA, <<>>, TMap(Ty("string")))>>, <<VMap(Ty("string"), << <<ka, VStr(sWorld)>> >>)>>),
     PStruct(<<Field(kA, <<>>, TStruct(TInner))>>, <<VStruct(TInner, <<VInt("int32", 1)>>)>>),
     PStruct(<<Field(kA, <<>>, Ty("chan"))>>, <<VChan>>),
     PStruct(<<Field(kTest, <<>>, TPtr(Ty("Regexp")))>>,
             <<VPtr(Ty("Regexp"), VRegexp(sDotStar, <<>>))>>),
     PStruct(<<Field(kTest, <<>>, TPtr(Ty("Regexp")))>>,
             <<VPtr(Ty("Regexp"), VRegexp(sDotStar, <<105, 109>>))>>),
     PStruct(<<Field(kTest, <<>>, TPtr(Ty("int")))>>, <<VNilPtr(Ty("int"))>>),
     PStruct(<<Field(kTest, <<>>, TPtr(Ty("int")))>>, <<VPtr(Ty("int"), VInt("int", 7))>>),
     PStruct(<<Field(kA, <<>>, Ty("MaxKey"))>>, <<VMaxKey>>),
     PStruct(<<Field(kA, <<>>, Ty("Symbol"))>>, <<VSym(<<115>>)>>),
     PStruct(<<Field(kA, <<>>, Ty("bool")), Field(kB, <<>>, Ty("bool"))>>, <<VBool(FALSE), VBool(TRUE)>>)}

\* roots that are no document
OtherRoots ==
    {Nil, VInt("int32", 10), VStr(sWorld), VBool(TRUE), VSlice(TIface, <<VInt("int32", 1)>>),
     VNilPtr(TStruct(TInner)), VPtr(Ty("int32"), VInt("int32", 5)), VChan}

MarshalInputs == DynamicDocs \cup TypedDocs \cup StructDocs \cup OtherRoots

\* an empty target of v's static shape, as TestUnmarshal makes it
EmptyTarget(v) ==
    CASE v.k = "map" -> VMap(v.ty, <<>>)
      [] v.k = "ptr" -> VPtr(v.ty, Zero(v.ty))

\* the targets a buffer is bound to besides its own shape
BindTargets ==
    {VMap(TIface, <<>>), VMap(Ty("int32"), <<>>), VMap(Ty("string"), <<>>),
     PStruct(<<Field(kA, <<>>, Ty("int32"))>>, <<VInt("int32", 0)>>),
     PStruct(<<Field(kB, <<>>, Ty("int32"))>>, <<VInt("int32", 0)>>),
     PStruct(<<Field(kA, <<>>, Ty("int32")), Field(kB, ka, Ty("int32"))>>,
             <<VInt("int32", 0), VInt("int32", 0)>>),
     PStruct(<<Field(kName, <<>>, Ty("int32")), Field(kNAME, <<>>, Ty("int32"))>>,
             <<VInt("int32", 0), VInt("int32", 0)>>),
     PStruct(<<Field(kName, kA, Ty("int32")), Field(kA, <<>>, Ty("int32"))>>,
             <<VInt("int32", 0), VInt("int32", 0)>>),
     PStruct(<<Field(kA, <<>>, Ty("string"))>>, <<VStr(<<>>)>>),
     VMap(Ty("bool"), <<>>), VMap(Ty("int8"), <<>>), VMap(Ty("int64"), <<>>),
     VMap(Ty("uint32"), <<>>), VMap(Ty("uint64"), <<>>), VMap(Ty("float64"), <<>>)}

\* tags the lengths table does not name
UnknownTags == {6, 17, 128, 200, 254}
UnknownTag(i) == CHOOSE t \in UnknownTags : Cardinality({u \in UnknownTags : u < t}) = i - 1

\* the first entry of a document, as a sequence of at most one <<key, value>>
FirstEntry(v) ==
    LET es == CASE v.k = "map" -> v.v
                [] v.k = "ptr" -> StructEntries(v.v[1].ty, v.v[1].v)
    IN IF es = <<>> THEN <<>> ELSE <<es[1]>>

\* where the length prefixes of a document's bytes start (1-based): the
\* top-level one and, when the first entry is a nested map or slice, its
PrefixPositions(v) ==
    {1} \cup {Len(e[1]) + 7 : e \in {x \in {FirstEntry(v)[i] : i \in 1..Len(FirstEntry(v))} :
                                       x[2].k \in {"map", "slice"}}}

(***************************************************************************)
(* The state machine: a caller marshals a value, then unmarshals either    *)
(* the bytes it got or bytes derived from them.                            *)
(***************************************************************************)
Init ==
    /\ pc = "idle"
    /\ val = Nil
    /\ enc = Ok(<<>>)
    /\ data = [arr |-> <<>>, n |-> 0]
    /\ target = Nil
    /\ dec = [st |-> "ok", e |-> "none", v |-> Nil]
    /\ stack = <<>>

\* Marshal(v)
DoMarshal ==
    /\ pc = "idle"
    /\ \E v \in MarshalInputs :
         /\ val' = v
         /\ enc' = Marshal(v)
    /\ pc' = "marshalled"
    /\ UNCHANGED <<data, target, dec, stack>>

\* the call Unmarshal(arr[:n], t), reached at pc value at
Call(at, arr, n, t) ==
    /\ pc' = at
    /\ data' = [arr |-> arr, n |-> n]
    /\ target' = t
    /\ dec' = Unmarshal(arr, n, t)
    /\ UNCHANGED <<val, enc, stack>>

\* Unmarshal of the bytes Marshal returned, into an empty target of the
\* value's own shape
RoundTrip ==
    /\ pc = "marshalled" /\ enc.st = "ok"
    /\ Call("roundtrip", enc.b, Len(enc.b), EmptyTarget(val))

\* Unmarshal of the bytes Marshal returned, into another target
Bind ==
    /\ pc = "marshalled" /\ enc.st = "ok"
    /\ \E t \in BindTargets : Call("bound", enc.b, Len(enc.b), t)

\* Unmarshal of a proper prefix of the bytes: a reslice of the buffer (the
\* array keeps the bytes cut off) or a copy (it ends where the prefix ends)
Truncated ==
    /\ pc = "marshalled" /\ enc.st = "ok"
    /\ \E n \in 0..(Len(enc.b) - 1), t \in {EmptyTarget(val), VMap(TIface, <<>>)} :
         \/ Call("truncated", enc.b, n, t)
         \/ Call("truncated", SubSeq(enc.b, 1, n), n, t)

\* Unmarshal of the bytes with the tag of a first element that has no body
\* replaced by a tag the codec does not define
Retagged ==
    /\ pc = "marshalled" /\ enc.st = "ok"
    /\ Len(enc.b) > 5 /\ enc.b[5] \in {elNull, elMax, elMin}
    /\ \E i \in 1..MaxUnknown, t \in BindTargets :
         Call("retagged", [enc.b EXCEPT ![5] = UnknownTag(i)], Len(enc.b), t)

\* Unmarshal of the bytes with one length prefix made one more or one less
Relength ==
    /\ pc = "marshalled" /\ enc.st = "ok"
    /\ \E p \in PrefixPositions(val), delta \in {-1, 1}, t \in {EmptyTarget(val), VMap(TIface, <<>>)} :
         Call("relength", [enc.b EXCEPT ![p] = (enc.b[p] + delta) % 256], Len(enc.b), t)

Next == DoMarshal \/ RoundTrip \/ Bind \/ Truncated \/ Retagged \/ Relength

Spec == Init /\ [][Next]_vars

(***************************************************************************)
(* The decoder step by step: one Unmarshal call into a map[string]         *)
(* interface{}, as the loops of decodeMapDoc and of the elArray case run,  *)
(* one readChunk at a time.  stack holds the decodeStates of the loops in  *)
(* progress, the innermost last; pc tells whether the call is running      *)
(* ("decoding"), has returned ("returned") or has panicked ("failed").     *)
(***************************************************************************)
\* the documents whose bytes the call is given, whole, cut or with one byte
\* replaced
StepDocs ==
    {VMap(TIface, <<>>),
     VMap(TIface, << <<ka, VStr(sWorld)>>, <<kb, VInt("int32", 1)>> >>),
     VMap(TIface, << <<ka, VMap(TIface, << <<kb, VMap(TIface, << <<kc, Nil>> >>)>> >>)>> >>),
     VMap(TIface, << <<ka, VSlice(TIface, <<VBool(TRUE), VSlice(TIface, <<VInt("int64", 2)>>)>>)>> >>),
     VMap(TIface, << <<ka, VPtr(Ty("Regexp"), VRegexp(sDotStar, <<105>>))>>, <<kb, VMaxKey>> >>),
     VMap(TIface, << <<ka, VPtr(Ty("JavaScript"),
                            VJavaScript(<<102>>, VMap(TIface, << <<kb, VBytes(<<222>>)>> >>)))>> >>)}

\* the bytes put in the place of one byte of a buffer
StepBytes == {0, 1, 2, 3, 4, 5, 11, 15, 16, 127, 128, 255}

\* the buffers of the call: the caller's array and the length of its slice
StepBuffers ==
    UNION {{[arr |-> b, n |-> n] : n \in 0..Len(b)}
             \cup {[arr |-> SubSeq(b, 1, n), n |-> n] : n \in 0..Len(b)}
             \cup {[arr |-> [b EXCEPT ![p] = x], n |-> Len(b)] : p \in 1..Len(b), x \in StepBytes}
           : b \in {Marshal(v).b : v \in StepDocs}}

\* the innermost decodeState
Top == stack[Len(stack)]

\* the stack once the innermost decodeState has read up to offset r
Moved(r) == [stack EXCEPT ![Len(stack)].r = r]

\* the elJavaScope case: readString gave s, four bytes are skipped and the
\* scope is decoded from the same decodeState
iterationScope(d2, c, s) ==
    IF s.st # "ok" THEN [do |-> "fail"]
    ELSE [do |-> "descend", r |-> c.r, d2 |-> [d2 EXCEPT !.r = s.r + 4]]

\* an element that holds no document: decodeElemInterface gave e
iterationElem(c, e) ==
    IF e.st # "ok" THEN [do |-> "fail"] ELSE [do |-> "advance", r |-> c.r]

\* one turn of the loop of decodeMapDoc or of the elArray case in the
\* decodeState d, readChunk having given c: the loop ends (kind 0), a nested
\* decodeState is made for a document, an array or a scope, the element is
\* stored, or a panic unwinds the call
iteration(d, c) ==
    CASE c.st # "ok" -> [do |-> "fail"]
      [] c.st = "ok" /\ c.kind = 0 -> [do |-> "return"]
      [] c.st = "ok" /\ c.kind \in {elDoc, elArray} ->
           [do |-> "descend", r |-> c.r, d2 |-> DecodeState(d.arr, c.b)]
      [] c.st = "ok" /\ c.kind = elJavaScope ->
           iterationScope(DecodeState(d.arr, c.b), c, readString(DecodeState(d.arr, c.b)))
      [] c.st = "ok" /\ c.kind \notin {0, elDoc, elArray, elJavaScope} ->
           iterationElem(c, decodeElemInterface(d.arr, c.kind, c.b))

\* Unmarshal(data, v) is called: d.b = data[4:] panics on a buffer of fewer
\* than four bytes, and decodeDoc starts the loop of decodeMapDoc otherwise
Enter ==
    /\ pc = "idle"
    /\ \E buf \in StepBuffers :
         /\ data' = buf
         /\ \/ buf.n < 4 /\ pc' = "failed" /\ stack' = <<>>
            \/ /\ buf.n >= 4 /\ pc' = "decoding"
               /\ stack' = <<[arr |-> buf.arr, lo |-> 4, n |-> buf.n - 4, r |-> 0]>>
    /\ UNCHANGED <<val, enc, target, dec>>

\* a panic unwinds every loop
Fail ==
    /\ pc = "decoding"
    /\ iteration(Top, readChunk(Top)).do = "fail"
    /\ pc' = "failed" /\ stack' = <<>>
    /\ UNCHANGED <<val, enc, data, target, dec>>

\* readChunk gives kind 0: the innermost loop ends, and with the outermost
\* one the call
Return ==
    /\ pc = "decoding"
    /\ iteration(Top, readChunk(Top)).do = "return"
    /\ stack' = SubSeq(stack, 1, Len(stack) - 1)
    /\ pc' = (IF Len(stack) = 1 THEN "returned" ELSE "decoding")
    /\ UNCHANGED <<val, enc, data, target, dec>>

\* the element is a document, an array or a scope: its body gets a
\* decodeState of its own, whose loop runs before this one goes on
Descend ==
    /\ pc = "decoding"
    /\ iteration(Top, readChunk(Top)).do = "descend"
    /\ stack' = Append(Moved(iteration(Top, readChunk(Top)).r),
                       iteration(Top, readChunk(Top)).d2)
    /\ UNCHANGED <<pc, val, enc, data, target, dec>>

\* any other element is decoded and stored, and the loop goes on
Advance ==
    /\ pc = "decoding"
    /\ iteration(Top, readChunk(Top)).do = "advance"
    /\ stack' = Moved(iteration(Top, readChunk(Top)).r)
    /\ UNCHANGED <<pc, val, enc, data, target, dec>>

Step == Enter \/ Fail \/ Return \/ Descend \/ Advance

Decoding == Init /\ [][Step]_vars


(***************************************************************************)
(* What the values of a run are made of.                                   *)
(***************************************************************************)
\* the kinds that have no encoding
UnsupportedKinds == {"chan", "func", "complex128"}

RECURSIVE Unwrap(_)
\* a value behind its pointers
Unwrap(v) == IF v.k = "ptr" /\ v.v # <<>> THEN Unwrap(v.v[1]) ELSE v

\* a document: a string-keyed mapping or a record, behind pointers or not
IsDocument(v) == Unwrap(v).k \in {"map", "struct"}

\* the entries of a value as <<key, value>>, in the order they are written
EntriesOf(v) ==
    CASE v.k = "map" -> v.v
      [] v.k = "struct" -> StructEntries(v.ty, v.v)
      [] v.k = "slice" -> [i \in 1..Len(v.v) |-> <<Itoa(i - 1), v.v[i]>>]
      [] OTHER -> <<>>

Entries(v) == EntriesOf(Unwrap(v))

HasNul(key) == \E i \in 1..Len(key) : key[i] = 0

RECURSIVE HasUnsupported(_)
\* a value of a kind with no encoding is an entry value at some depth
HasUnsupported(v) ==
    \E i \in 1..Len(Entries(v)) :
        \/ Unwrap(Entries(v)[i][2]).k \in UnsupportedKinds
        \/ HasUnsupported(Entries(v)[i][2])

RECURSIVE HasNulKey(_)
\* a key at some depth holds a NUL
HasNulKey(v) ==
    \E i \in 1..Len(Entries(v)) : HasNul(Entries(v)[i][1]) \/ HasNulKey(Entries(v)[i][2])

\* the kinds a dynamic slot gives back as they were: the natural values
NaturalKinds == {"string", "int32", "int64", "bool", "nil", "bytes", "float64",
                 "Symbol", "MaxKey", "MinKey"}
\* the extension values held through a pointer
ExtensionKinds == {"ObjectID", "Regexp", "JavaScript", "Time"}

RECURSIVE Natural(_)
\* a value a dynamic slot holds after decoding as the same value
Natural(v) ==
    \/ v.k \in NaturalKinds
    \/ v.k = "ptr" /\ v.v # <<>> /\ v.v[1].k \in ExtensionKinds
    \/ v.k \in {"map", "slice"} /\ v.ty = TIface
         /\ \A i \in 1..Len(Entries(v)) : Natural(Entries(v)[i][2])

RECURSIVE Typed(_, _)
\* a value of the static type t, made of scalars, strings, byte sequences,
\* nested documents, arrays, null and extension values
Typed(t, v) ==
    CASE t.k = "iface" -> Natural(v)
      [] t.k \in IntKinds \cup FloatKinds \cup {"string", "bool", "bytes", "Symbol", "MaxKey", "MinKey"} ->
           v.k = t.k
      [] t.k = "map" -> v.k = "map" /\ ~v.isnil /\ v.ty = t.of
                          /\ \A i \in 1..Len(v.v) : Typed(t.of, v.v[i][2])
      [] t.k = "slice" -> v.k = "slice" /\ v.ty = t.of
                            /\ \A i \in 1..Len(v.v) : Typed(t.of, v.v[i])
      [] t.k = "struct" -> v.k = "struct" /\ v.ty = t.of
                             /\ \A i \in 1..Len(v.v) : Typed(t.of[i].typ, v.v[i])
      [] t.k = "ptr" -> v.k = "ptr" /\ v.v # <<>> /\ v.ty = t.of
                          /\ (t.of.k \in ExtensionKinds \/ (t.of.k = "struct" /\ Typed(t.of, v.v[1])))
      [] OTHER -> FALSE

\* a document value the Value Model represents: a mapping or a pointer to a
\* record, with keys free of NUL
Representable(v) ==
    /\ v.k = "map" \/ (v.k = "ptr" /\ v.ty.k = "struct")
    /\ Typed(TypeOf(v), v)
    /\ ~HasNulKey(v)

\* the kinds whose body the layout table gives by the value alone
PlainKinds == IntKinds \cup FloatKinds \cup {"string", "bytes", "bool", "nil"}

RECURSIVE Plain(_)
\* every entry at every depth is a scalar, a string, a byte sequence, null,
\* or a nested document or array of such entries, under a key free of NUL
Plain(v) ==
    \A i \in 1..Len(Entries(v)) :
        /\ ~HasNul(Entries(v)[i][1])
        /\ Unwrap(Entries(v)[i][2]).k \in PlainKinds \cup {"map", "struct", "slice"}
        /\ Plain(Entries(v)[i][2])

\* a document: the length of the whole, the elements, the terminator
Framed(body) == LEBytes(Len(body) + 5, 4) \o body \o <<0>>

\* the tag of a plain value in the element table
TagOf(v) ==
    CASE v.k \in {"int8", "uint8", "int16", "uint16", "int32", "uint32"} -> elInt32
      [] v.k \in {"int", "uint", "int64", "uint64"} -> elInt64
      [] v.k \in FloatKinds -> elFloat
      [] v.k = "string" -> elString
      [] v.k = "bytes" -> elBinary
      [] v.k = "bool" -> elBool
      [] v.k = "nil" -> elNull
      [] v.k \in {"map", "struct"} -> elDoc
      [] v.k = "slice" -> elArray

RECURSIVE ElementsOf(_), BodyOf(_)
\* the elements of the entries es, each as tag, key, NUL, body
ElementsOf(es) ==
    IF es = <<>> THEN <<>>
    ELSE <<TagOf(Unwrap(es[1][2]))>> \o es[1][1] \o <<0>> \o BodyOf(Unwrap(es[1][2]))
           \o ElementsOf(Tail(es))

\* the body of a plain value in the element table's layout
BodyOf(v) ==
    CASE v.k \in {"int8", "int16", "int32"} -> SignExtend(v.v, 4)
      [] v.k \in {"uint8", "uint16", "uint32"} -> ZeroExtend(v.v, 4)
      [] v.k \in {"int", "int64"} -> SignExtend(v.v, 8)
      [] v.k \in {"uint", "uint64"} -> ZeroExtend(v.v, 8)
      [] v.k = "float64" -> v.v
      [] v.k = "float32" -> Float32To64(v.v)
      [] v.k = "string" -> LEBytes(Len(v.v) + 1, 4) \o v.v \o <<0>>
      [] v.k = "bytes" -> LEBytes(Len(v.v), 4) \o <<0>> \o v.v
      [] v.k = "bool" -> <<IF v.v THEN 1 ELSE 0>>
      [] v.k = "nil" -> <<>>
      [] v.k \in {"map", "struct", "slice"} -> Framed(ElementsOf(EntriesOf(v)))

\* the field the resolution rule binds a key to, as the set of candidates of
\* the first step that has any: (a) the name overrides equal to the key, (b)
\* the declared names equal to it, (c) the declared names equal to it but for
\* case
Candidates(fs, key) ==
    IF \E i \in 1..Len(fs) : fs[i].tag # <<>> /\ fs[i].tag = key
    THEN {i \in 1..Len(fs) : fs[i].tag # <<>> /\ fs[i].tag = key}
    ELSE IF \E i \in 1..Len(fs) : fs[i].name = key
    THEN {i \in 1..Len(fs) : fs[i].name = key}
    ELSE {i \in 1..Len(fs) : ToLower(fs[i].name) = ToLower(key)}

\* the rule names one field for every key of es, or none
Decided(fs, es) == \A i \in 1..Len(es) : Cardinality(Candidates(fs, es[i][1])) <= 1

\* the field values after the element <<key, v>> is bound by the rule
BindOne(fs, vs, key, v) ==
    IF Candidates(fs, key) = {} THEN vs
    ELSE [vs EXCEPT ![CHOOSE i \in Candidates(fs, key) : TRUE] = v]

RECURSIVE BindAll(_, _, _)
\* the field values after the elements es are bound by the rule, in order
BindAll(fs, vs, es) ==
    IF es = <<>> THEN vs ELSE BindAll(fs, BindOne(fs, vs, es[1][1], es[1][2]), Tail(es))

\* a record of int32 fields
Int32Record(t) ==
    /\ t.k = "ptr" /\ t.v # <<>> /\ t.v[1].k = "struct"
    /\ \A i \in 1..Len(t.ty.of) : t.ty.of[i].typ = Ty("int32")

\* a document of non-negative int32 entries under keys free of NUL
Int32Entries(v) ==
    /\ IsDocument(v)
    /\ \A i \in 1..Len(Entries(v)) :
         /\ Entries(v)[i][2].k = "int32" /\ ~IsNeg(Entries(v)[i][2].v)
         /\ ~HasNul(Entries(v)[i][1])


(***************************************************************************)
(* Properties.                                                             *)
(***************************************************************************)
\* C1: round trip.  For every representable document value, Marshal
\* succeeds, and Unmarshal of its bytes into an empty target of the same
\* static shape succeeds and leaves the target equal to the value.
RoundTripEqual ==
    (pc # "idle" /\ Representable(val)) =>
        /\ enc.st = "ok"
        /\ pc = "roundtrip" => (dec.st = "ok" /\ dec.v = val)

\* C2: layout.  Marshal of a document gives exactly the 4-byte little-endian
\* total length, then for each entry in order the tag, the key, a NUL and the
\* body in its kind's layout, then one 0x00; so {} gives 05 00 00 00 00,
\* {"hello": "world"} and {"test": int32(10)} the bytes of the test table.
MarshalLayout ==
    (pc # "idle" /\ IsDocument(val) /\ Plain(val)) =>
        /\ enc.st = "ok"
        /\ enc.b = Framed(ElementsOf(Entries(val)))
        /\ val = VMap(TIface, <<>>) => enc.b = <<5, 0, 0, 0, 0>>
        /\ val = VMap(TIface, << <<kHello, VStr(sWorld)>> >>) =>
             enc.b = <<22, 0, 0, 0, 2, 104, 101, 108, 108, 111, 0,
                       6, 0, 0, 0, 119, 111, 114, 108, 100, 0, 0>>
        /\ val = VMap(TIface, << <<kTest, VInt("int32", 10)>> >>) =>
             enc.b = <<15, 0, 0, 0, 16, 116, 101, 115, 116, 0, 10, 0, 0, 0, 0>>

\* C3: top-level length.  Whenever Marshal returns bytes, their first four
\* bytes are the little-endian total length of the output, prefix and
\* terminator included, and the last byte is 0x00.
TopLevelLength ==
    (pc # "idle" /\ enc.st = "ok") =>
        /\ Len(enc.b) >= 5
        /\ SubSeq(enc.b, 1, 4) = LEBytes(Len(enc.b), 4)
        /\ enc.b[Len(enc.b)] = 0

\* C3's case: Marshal has returned the bytes of a document with an entry
TopLevelLengthReached == pc = "marshalled" /\ enc.st = "ok" /\ Len(enc.b) > 5

\* C4: unsupported kinds.  When a value of a kind with no encoding is an
\* entry value at any depth of the document, Marshal fails with an
\* UnsupportedType error and returns no bytes; it never succeeds with the
\* entry left out.
UnsupportedFails ==
    (pc # "idle" /\ IsDocument(val) /\ HasUnsupported(val) /\ ~HasNulKey(val)) =>
        /\ enc.st = "err"
        /\ enc.b = <<>>
        /\ enc.e \in {UnsupportedType(x) : x \in {VChan, VFunc, VComplex}}

\* C5: top-level type.  Marshal of a root that behind its pointers is neither
\* a mapping nor a record fails with an error returned to the caller.
TopLevelTypeFails == (pc # "idle" /\ ~IsDocument(val)) => enc.st = "err"

\* C6: keys.  Marshal of a document in which a key at any depth holds a NUL
\* fails with an error; it gives no bytes with a NUL inside a key.
NulKeyFails ==
    (pc # "idle" /\ IsDocument(val) /\ HasNulKey(val) /\ ~HasUnsupported(val)) => enc.st = "err"

\* C7: unknown tags.  Unmarshal of a buffer with an element whose tag is
\* none of the defined ones fails with an error for every target shape; the
\* element is never skipped or taken as an empty value.
UnknownTagFails == pc = "retagged" => dec.st = "err"

\* C8: truncation.  Unmarshal of a buffer that ends before the bytes its
\* elements demand fails with an error returned to the caller, 05 00 00 00
\* in particular.  (A proper prefix of a document's bytes is such a buffer
\* when no key of the document holds a NUL.)
TruncatedFails == (pc = "truncated" /\ ~HasNulKey(val)) => dec.st = "err"

\* C9: length prefixes.  Unmarshal of a document with a length prefix,
\* top-level or nested, that is not the byte count of its document fails; it
\* never succeeds as if the prefix were right.
WrongLengthFails == pc = "relength" => dec.st # "ok"

\* C10: field resolution.  For every wire key, the empty one included,
\* Unmarshal into a record binds the element to the field chosen by (a) the
\* name override equal to the key, (b) the declared name equal to it, (c) the
\* declared name equal to it but for case; an element no field matches is
\* skipped, changes no field, and the elements after it are still decoded.
FieldResolution ==
    (/\ pc \in {"bound", "roundtrip"}
     /\ Int32Record(target) /\ Int32Entries(val)
     /\ Decided(target.ty.of, Entries(val))) =>
        /\ dec.st = "ok"
        /\ dec.v = PStruct(target.ty.of, BindAll(target.ty.of, target.v[1].v, Entries(val)))

\* the static types of the slots the element under key is bound to in the
\* target t: the element type of a typed mapping, the type of the field the
\* resolution rule names in a record
SlotTypes(t, key) ==
    CASE t.k = "map" -> {t.ty}
      [] t.k = "ptr" /\ t.ty.k = "struct" ->
           {t.ty.of[i].typ : i \in IF key # <<>> /\ Cardinality(Candidates(t.ty.of, key)) = 1
                                     THEN Candidates(t.ty.of, key) ELSE {}}
      [] OTHER -> {}

\* a value held as a scalar element: an integer, a string, a boolean or null
ScalarKinds == {"int32", "int64", "string", "bool", "nil"}

\* a document of scalar entries under keys free of NUL
ScalarEntries(v) ==
    /\ IsDocument(v) /\ ~HasNulKey(v)
    /\ \A i \in 1..Len(Entries(v)) : Entries(v)[i][2].k \in ScalarKinds

\* the element kind of the scalar v has no assignment to the static type t
Incompatible(v, t) ==
    \/ v.k \in {"int32", "int64"} /\ t.k \in {"string", "bool"}
    \/ v.k = "string" /\ t.k \in IntKinds \cup {"bool"}
    \/ v.k = "bool" /\ t.k \in IntKinds \cup {"string"}
    \/ v.k = "nil" /\ t.k \in IntKinds \cup FloatKinds \cup {"string", "bool"}

\* some entry of the document v meets a slot of the target t it cannot go to
Mismatched(t, v) ==
    \E i \in 1..Len(Entries(v)) :
        \E ty \in SlotTypes(t, Entries(v)[i][1]) : Incompatible(Entries(v)[i][2], ty)

\* C11: type mismatch.  When an element's kind has no assignment to the
\* static type of the non-dynamic slot it is bound to (an integer element to
\* a string or boolean slot, a string element to an integer slot, null to a
\* slot that cannot be empty), Unmarshal fails with an error; it never
\* returns success with the slot left as it was.
TypeMismatchFails ==
    (pc \in {"bound", "roundtrip"} /\ ScalarEntries(val) /\ Mismatched(target, val)) =>
        dec.st = "err"

\* a document of one or more int32 and int64 entries under keys free of NUL
IntEntries(v) ==
    /\ IsDocument(v) /\ ~HasNulKey(v) /\ Entries(v) # <<>>
    /\ \A i \in 1..Len(Entries(v)) : Entries(v)[i][2].k \in {"int32", "int64"}

\* the signed integer with the bytes b is a value of the integer kind k
Fits(k, b) ==
    IF k \in SignedKinds
    THEN SignExtend(SubSeq(SignExtend(b, 8), 1, KindSize(k)), 8) = SignExtend(b, 8)
    ELSE ~IsNeg(b) /\ ZeroExtend(SubSeq(SignExtend(b, 8), 1, KindSize(k)), 8) = SignExtend(b, 8)

\* C12: overflow.  Unmarshal of an int32 or int64 element into an integer
\* slot of any width and signedness fails with an error whenever the
\* element's signed value is no value of the slot's type: too large, too
\* small, or negative for an unsigned slot.  No wrapped or cut value is stored.
IntOverflowFails ==
    (/\ pc \in {"bound", "roundtrip"} /\ IntEntries(val)
     /\ target.k = "map" /\ target.ty.k \in IntKinds
     /\ \E i \in 1..Len(Entries(val)) : ~Fits(target.ty.k, Entries(val)[i][2].v)) =>
        dec.st = "err"

\* an indirection: a pointer or an interface holding nothing
Indirection(v) == v.k \in {"ptr", "nil"}
\* an indirection that refers to nothing
Empty(v) == v.k = "nil" \/ (v.k = "ptr" /\ v.v = <<>>)

\* a document of one entry under a key free of NUL
OneEntry(v) == IsDocument(v) /\ Len(Entries(v)) = 1 /\ ~HasNul(Entries(v)[1][1])

\* C13: indirections.  Marshal of an entry whose value is a nil pointer, of
\* any pointee type, or a nil interface does not fail and gives a null
\* element: tag 0x0A, the key, no body.  Marshal of an entry whose value is a
\* non-nil pointer gives the element of the value pointed to.
NilPointerNull ==
    (pc # "idle" /\ OneEntry(val) /\ Indirection(Entries(val)[1][2])) =>
        /\ enc.st = "ok"
        /\ Empty(Entries(val)[1][2]) =>
             enc.b = Framed(<<elNull>> \o Entries(val)[1][1] \o <<0>>)
        /\ (~Empty(Entries(val)[1][2]) /\ Entries(val)[1][2].v[1].k \in PlainKinds) =>
             enc.b = Framed(ElementsOf(<< <<Entries(val)[1][1], Entries(val)[1][2].v[1]>> >>))

\* the integer kinds of 8, 16 and 32 bits; the others are of 64 bits or of
\* the platform's word
NarrowKinds == {"int8", "uint8", "int16", "uint16", "int32", "uint32"}

\* the width in bytes of the element an integer of kind k is written as
ElementWidth(k) == IF k \in NarrowKinds THEN KindSize("int32") ELSE KindSize("int64")

\* C14: integer tags.  Marshal writes every 8-, 16- and 32-bit integer,
\* signed or unsigned, as an int32 element (tag 0x10, 4 bytes) and every
\* 64-bit or platform-word integer as an int64 element (tag 0x12, 8 bytes);
\* the body is the value in two's complement at that width, an unsigned
\* value above the signed range keeping its bit pattern, and Marshal does
\* not fail.
IntegerTags ==
    (pc # "idle" /\ OneEntry(val) /\ Entries(val)[1][2].k \in IntKinds) =>
        /\ enc.st = "ok"
        /\ Len(enc.b) = Len(Entries(val)[1][1]) + ElementWidth(Entries(val)[1][2].k) + 7
        /\ enc.b[5] = (IF Entries(val)[1][2].k \in NarrowKinds THEN elInt32 ELSE elInt64)
        /\ SubSeq(enc.b, Len(Entries(val)[1][1]) + 7, Len(enc.b) - 1) =
             (IF Entries(val)[1][2].k \in SignedKinds
              THEN SignExtend(Entries(val)[1][2].v, ElementWidth(Entries(val)[1][2].k))
              ELSE ZeroExtend(Entries(val)[1][2].v, ElementWidth(Entries(val)[1][2].k)))

\* C14's case: Marshal has written an unsigned integer above the signed
\* range of its width
IntegerTagsReached ==
    /\ pc = "marshalled" /\ enc.st = "ok" /\ OneEntry(val)
    /\ Entries(val)[1][2].k \in {"uint8", "uint16", "uint32"}
    /\ IsNeg(Entries(val)[1][2].v)

RECURSIVE WireKeysFrom(_)
\* the keys from the chunk c on, c being what the framing rule reads at d
WireKeysNext(d, c) ==
    IF c.st # "ok" \/ c.kind = 0 THEN <<>>
    ELSE <<c.key>> \o WireKeysFrom([d EXCEPT !.r = c.r])
\* the keys of the elements of a document, in wire order, read from d on
WireKeysFrom(d) == WireKeysNext(d, readChunk(d))
\* the keys of the top-level elements of the document with the bytes b
WireKeys(b) == WireKeysFrom([arr |-> b, lo |-> 4, n |-> Len(b) - 4, r |-> 0])

\* the key a record's field is written under: its name override when it has
\* one, its declared name otherwise
FieldKey(f) == IF f.tag # <<>> THEN f.tag ELSE f.name

\* a field value with an element of its own that the framing rule steps
\* over: no record, no nil pointer, no kind without an encoding
Stepped(v) ==
    /\ ~Empty(v) \/ v.k = "nil"
    /\ Unwrap(v).k \notin UnsupportedKinds \cup {"struct"}

\* a record, behind its pointer, all of whose fields have such values
\* under keys free of NUL
SteppedRecord(v) ==
    /\ v.k = "ptr" /\ v.v # <<>> /\ v.v[1].k = "struct"
    /\ \A i \in 1..Len(v.ty.of) : Stepped(v.v[1].v[i]) /\ ~HasNul(FieldKey(v.ty.of[i]))

NestedLength ==
    (/\ pc # "idle" /\ enc.st = "ok" /\ OneEntry(val)
     /\ Unwrap(Entries(val)[1][2]).k \in {"map", "slice", "struct"}) =>
        /\ enc.b[5] = (IF Unwrap(Entries(val)[1][2]).k = "slice" THEN elArray ELSE elDoc)
        /\ SubSeq(enc.b, Len(Entries(val)[1][1]) + 7, Len(Entries(val)[1][1]) + 10) =
             LEBytes(Len(enc.b) - Len(Entries(val)[1][1]) - 7, 4)

RECURSIVE Negated(_, _)
\* the two's complement negation of the bytes b, c being the carry in
Negated(b, c) ==
    IF b = <<>> THEN <<>>
    ELSE <<(255 - b[1] + c) % 256>> \o Negated(Tail(b), (255 - b[1] + c) \div 256)

\* the float64 equal to the signed integer with the bytes b, by its bits
FloatOfSigned(b) ==
    IF IsNeg(b)
    THEN [Float64FromUint(Negated(b, 1)) EXCEPT ![8] = @ + 128]
    ELSE Float64FromUint(b)

\* the signed integer with the bytes b as a value of the slot type t: of a
\* signed integer type, of float64, or of the dynamic type
Stored(t, x) ==
    CASE t.k = "iface" -> x
      [] t.k \in SignedKinds -> [k |-> t.k, v |-> SubSeq(SignExtend(x.v, 8), 1, KindSize(t.k))]
      [] t.k = "float64" -> VFloat("float64", FloatOfSigned(x.v))

\* C17: signed integers.  The body of an int32 or int64 element is a
\* little-endian two's complement integer for every target: Unmarshal of an
\* element with the signed value v into a signed integer slot that holds
\* v, into a floating-point slot or into a dynamic slot succeeds and stores
\* exactly v, a negative v included.
SignedDecode ==
    (/\ pc \in {"bound", "roundtrip"} /\ IntEntries(val)
     /\ target.k = "map" /\ target.ty.k \in SignedKinds \cup {"float64", "iface"}
     /\ \A i \in 1..Len(Entries(val)) :
            target.ty.k \in SignedKinds => Fits(target.ty.k, Entries(val)[i][2].v)) =>
        /\ dec.st = "ok"
        /\ dec.v = VMap(target.ty, [i \in 1..Len(Entries(val)) |->
                                      <<Entries(val)[i][1], Stored(target.ty, Entries(val)[i][2])>>])

\* a document of entries that are sequences of a static element type, not
\* raw bytes, of non-negative int32 or of strings
SequenceEntries(v) ==
    /\ IsDocument(v) /\ ~HasNulKey(v) /\ Entries(v) # <<>>
    /\ \A i \in 1..Len(Entries(v)) :
         /\ Entries(v)[i][2].k = "slice" /\ Entries(v)[i][2].ty # TIface
         /\ \A j \in 1..Len(Entries(v)[i][2].v) :
              \/ Entries(v)[i][2].v[j].k = "string"
              \/ Entries(v)[i][2].v[j].k = "int32" /\ ~IsNeg(Entries(v)[i][2].v[j].v)

\* C18: typed sequences.  When Unmarshal binds an array element to a record
\* field or a mapping value whose static type is a sequence, not raw bytes,
\* the slot afterwards holds the array's elements in wire order, as many as
\* the array has.
SequenceDecode ==
    (pc = "roundtrip" /\ SequenceEntries(val)) =>
        /\ dec.st = "ok"
        /\ Len(Entries(dec.v)) = Len(Entries(val))
        /\ \A i \in 1..Len(Entries(val)) :
             /\ Entries(dec.v)[i][2].k = "slice"
             /\ Entries(dec.v)[i][2].v = Entries(val)[i][2].v

\* the buffer of n bytes ends after the tag of the document's one element
\* and before the NUL of its key
KeyCut(v, n) == OneEntry(v) /\ n \in 5..(Len(Entries(v)[1][1]) + 5)

\* the document's one element is a regex, and the buffer of n bytes out of
\* the len that Marshal gave ends after the element's key and before the
\* second NUL of its body
RegexCut(v, n, len) ==
    /\ OneEntry(v) /\ TypeOf(Entries(v)[1][2]) = TPtr(Ty("Regexp")) /\ ~Empty(Entries(v)[1][2])
    /\ n \in (Len(Entries(v)[1][1]) + 6)..(len - 2)

\* C19: unterminated strings.  Unmarshal fails with an error for an
\* unterminated string whenever the key of an element has no NUL in the rest
\* of the buffer, and whenever the body of a regex element lacks one of its
\* two NULs; it never goes on with a shortened regex body.
UnterminatedFails ==
    (pc = "truncated" /\ (KeyCut(val, data.n) \/ RegexCut(val, data.n, Len(enc.b)))) =>
        /\ dec.st = "err"
        /\ dec.e = "unterminated C string"

\* the bytes of the caller's array from the start of the window of the
\* decodeState d on
Reach(d) == Len(d.arr) - d.lo

\* where in the caller's array the innermost decodeState reads next
Position(st) == st[Len(st)].lo + st[Len(st)].r

\* the turn it of the loop in the decodeState d is one of the four, and
\* when the loop goes on the read offset has grown by at least one byte;
\* a nested decodeState has a window that starts later in the array than
\* the enclosing one and so has fewer bytes within reach
Turn(d, it) ==
    /\ it.do \in {"fail", "return", "descend", "advance"}
    /\ it.do \in {"descend", "advance"} => it.r >= d.r + 1
    /\ it.do = "descend" => (it.d2.lo > d.lo /\ Reach(it.d2) < Reach(d))

\* a step of a running call ends it, or moves the place it reads at forward
\* in the caller's array
Rises ==
    pc = "decoding" =>
        \/ pc' \in {"returned", "failed"}
        \/ pc' = "decoding" /\ Position(stack') > Position(stack)

RegexEntry(v) ==
    /\ OneEntry(v)
    /\ TypeOf(Entries(v)[1][2]) = TPtr(Ty("Regexp")) /\ ~Empty(Entries(v)[1][2])

\* the Regexp a document of one regex entry holds
RegexOf(v) == Entries(v)[1][2].v[1].v

\* C21: regex options.  Marshal writes a Regexp as pattern, NUL, options,
\* NUL under tag 0x0B.  Unmarshal of a regex element, into a *Regexp slot or
\* a dynamic one, gives a Regexp whose Expr is the wire pattern and whose
\* Options is empty whatever options the body carries; so Unmarshal of
\* Marshal(v) gives back a Regexp value exactly when its Options is empty.
RegexOptionsDropped ==
    (pc # "idle" /\ RegexEntry(val)) =>
        /\ enc.st = "ok"
        /\ enc.b = Framed(<<elRegexp>> \o Entries(val)[1][1] \o <<0>>
                            \o RegexOf(val).Expr \o <<0>> \o RegexOf(val).Options \o <<0>>)
        /\ pc = "roundtrip" =>
             /\ dec.st = "ok"
             /\ Len(Entries(dec.v)) = 1
             /\ Entries(dec.v)[1][2] = VPtr(Ty("Regexp"), VRegexp(RegexOf(val).Expr, <<>>))
             /\ (dec.v = val) <=> (RegexOf(val).Options = <<>>)

\* C21's case: a Regexp with options has been marshalled and decoded again
\* into a *Regexp field
RegexOptionsReached ==
    /\ pc = "roundtrip" /\ RegexEntry(val) /\ dec.st = "ok"
    /\ val.k = "ptr" /\ RegexOf(val).Options # <<>>

====
